---- MODULE Spec2Model ----
(***************************************************************************)
(* The project/file backend of src/index.js: an Express application whose  *)
(* handlers each run one statement against a PostgreSQL store holding two  *)
(* tables, projects and files.                                             *)
(*                                                                         *)
(* Every handler of src/index.js awaits exactly one pool.query, so a       *)
(* handler is one atomic step: validation, the statement, the response.    *)
(* The bulk replace of a project's files (spec.md 4.2, 5) has no route in  *)
(* src/index.js; it is modelled from its description as a multi-statement  *)
(* transaction whose statements interleave with the other handlers.        *)
(***************************************************************************)
EXTENDS Integers, Sequences, FiniteSets, TLC

\* Size of the universe uuidv4() draws from.
MaxUuid == 2
\* Longest file list handed to the bulk replace.
MaxLen == 2

Uuids == 1..MaxUuid
\* A route parameter that is not a UUID (the id columns are of type UUID).
BadId == 0
ReqIds == Uuids \cup {BadId}

(***************************************************************************)
(* JSON values of a request body field.                                    *)
(***************************************************************************)
Undefined == [tag |-> "undefined", str |-> ""]
Null == [tag |-> "null", str |-> ""]
Str(s) == [tag |-> "string", str |-> s]

NameInputs == {Undefined, Str(""), Str("Demo"), Str("App")}
PathInputs == {Undefined, Str(""), Str("a.txt"), Str("b.txt")}
ContentInputs == {Undefined, Null, Str(""), Str("hello")}

VARIABLES
    schema,     \* TRUE once the tables exist
    projects,   \* rows of table projects, oldest created_at first
    files,      \* rows of table files, oldest created_at first
    tx,         \* the bulk-replace transaction in progress, if any
    resp        \* what the last handler step answered

vars == <<schema, projects, files, tx, resp>>

TxIdle ==
    [st |-> "idle", pid |-> BadId, F |-> <<>>, k |-> 0, deleted |-> FALSE,
     del |-> {}, ins |-> <<>>, pre |-> <<>>]

\* status "none": the request is never answered.
Resp(op, status, err, id, arg, rows, again) ==
    [op |-> op, status |-> status, err |-> err, id |-> id,
     arg |-> arg, rows |-> rows, again |-> again]

NoResp == Resp("none", "200", "", BadId, Undefined, <<>>, FALSE)

Ok(op, id, arg, rows) == Resp(op, "200", "", id, arg, rows, FALSE)

\* return res.status(400).json({ error: ... })
Invalid(op, arg) == Resp(op, "400", "validation", BadId, arg, <<>>, FALSE)

(***************************************************************************)
(* Store-side helpers.                                                     *)
(***************************************************************************)
\* created_at TIMESTAMP DEFAULT NOW() is set when a row is inserted and never
\* written again, and timestamps are only ever compared: a table is kept as the
\* sequence of its rows by ascending created_at, and a row's position stands for
\* its created_at.
InsertRow(table, row) == Append(table, row)

Reverse(s) == [i \in 1..Len(s) |-> s[Len(s) + 1 - i]]

\* The rows of s in every order: what a SELECT without ORDER BY may return.
AnyOrder(s) ==
    {[i \in 1..Len(s) |-> s[p[i]]] :
        p \in {q \in [1..Len(s) -> 1..Len(s)] : \A i, j \in 1..Len(s) : q[i] = q[j] => i = j}}

\* ... FROM files WHERE project_id = $1, by ascending created_at
SelectFrom(table, pid) == SelectSeq(table, LAMBDA f : f.project_id = pid)

SelectFiles(pid) == SelectFrom(files, pid)

Ids(rows) == {rows[i].id : i \in 1..Len(rows)}

\* A row deleted or inserted by the open transaction is locked until it ends: a
\* statement of another connection on that row, or an insert of its key, waits.
RowLocked(id) == tx.st = "open" /\ (id \in tx.del \/ id \in Ids(tx.ins))

\* Why a statement is rejected before it touches a row: the connection is down,
\* the tables do not exist yet, or a parameter is no UUID.
QueryError(dbOk, id) ==
    IF ~dbOk THEN "connection"
    ELSE IF ~schema \/ id = BadId THEN "query"
    ELSE ""

\* A rejected pool.query in a handler without try/catch. Express 5 forwards the
\* rejected promise to its default error handler, which answers 500; Express 4
\* does not see it, and the request is never answered.
UnhandledStatus == {"500", "none"}

Unhandled(op, err) == {Resp(op, s, err, BadId, Undefined, <<>>, FALSE) : s \in UnhandledStatus}

\* catch (e) { res.status(500).json(...) }
Caught(op, err) == Resp(op, "500", err, BadId, Undefined, <<>>, FALSE)

Init ==
    /\ schema = FALSE
    /\ projects = <<>>
    /\ files = <<>>
    /\ tx = TxIdle
    /\ resp = NoResp

(***************************************************************************)
(* GET /health, GET /db-test, GET /init-db                                 *)
(***************************************************************************)
Health ==
    /\ resp' = Ok("health", BadId, Undefined, <<>>)
    /\ UNCHANGED <<schema, projects, files, tx>>

DbTest(dbOk) ==
    /\ resp' = IF dbOk THEN Ok("dbTest", BadId, Undefined, <<>>)
               ELSE Caught("dbTest", "connection")
    /\ UNCHANGED <<schema, projects, files, tx>>

InitDb(dbOk) ==
    /\ IF dbOk
       THEN /\ schema' = TRUE
            /\ resp' = Ok("initDb", BadId, Undefined, <<>>)
       ELSE /\ schema' = schema
            /\ resp' \in Unhandled("initDb", "connection")
    /\ UNCHANGED <<projects, files, tx>>

(***************************************************************************)
(* POST /projects, GET /projects                                           *)
(***************************************************************************)
NameMissing_undefinedOnly(name) == name = Undefined

\* !name
NameMissing(name) == name.tag # "string" \/ name.str = ""

ProjectPkOk_unchecked(uuid) == TRUE

\* id UUID PRIMARY KEY of table projects
ProjectPkOk(uuid) == \A i \in 1..Len(projects) : projects[i].id # uuid

CreateProject(name, dbOk) ==
    IF NameMissing(name)
    THEN /\ resp' = Invalid("createProject", name)
         /\ UNCHANGED <<schema, projects, files, tx>>
    ELSE IF QueryError(dbOk, 1) # ""
    THEN /\ resp' \in Unhandled("createProject", QueryError(dbOk, 1))
         /\ UNCHANGED <<schema, projects, files, tx>>
    ELSE \E uuid \in Uuids :
           IF ~ProjectPkOk(uuid)
           THEN /\ resp' \in Unhandled("createProject", "pk")
                /\ UNCHANGED <<schema, projects, files, tx>>
           ELSE /\ projects' = InsertRow(projects, [id |-> uuid, name |-> name.str])
                /\ resp' = Ok("createProject", uuid, name, <<[id |-> uuid, name |-> name.str]>>)
                /\ UNCHANGED <<schema, files, tx>>

\* SELECT * FROM projects ORDER BY created_at DESC
ListProjectsRows == Reverse(projects)

ListProjects(dbOk) ==
    /\ IF QueryError(dbOk, 1) # ""
       THEN resp' \in Unhandled("listProjects", QueryError(dbOk, 1))
       ELSE resp' = Ok("listProjects", BadId, Undefined, ListProjectsRows)
    /\ UNCHANGED <<schema, projects, files, tx>>

(***************************************************************************)
(* GET /projects/:projectId/files                                          *)
(***************************************************************************)
\* SELECT id, path, content: the columns of one result row.
FileRow(f) == [id |-> f.id, path |-> f.path, content |-> f.content]
FileRows(s) == [i \in 1..Len(s) |-> FileRow(s[i])]

\* The statement has no ORDER BY: the store returns the matching rows in an order
\* of its choosing.
ListFilesRows(pid) == AnyOrder(FileRows(SelectFiles(pid)))

ListFiles(pid, dbOk) ==
    /\ IF QueryError(dbOk, pid) # ""
       THEN resp' \in Unhandled("listFiles", QueryError(dbOk, pid))
       ELSE \E r \in ListFilesRows(pid) : resp' = Ok("listFiles", pid, Undefined, r)
    /\ UNCHANGED <<schema, projects, files, tx>>

(***************************************************************************)
(* POST /projects/:projectId/files/new                                     *)
(***************************************************************************)
\* !path
PathMissing(path) == path.tag # "string" \/ path.str = ""

\* id UUID PRIMARY KEY of table files
FilePkOk(uuid) == \A i \in 1..Len(files) : files[i].id # uuid

ProjectFkOk_unchecked(pid) == TRUE

\* project_id UUID REFERENCES projects(id)
ProjectFkOk(pid) == \E i \in 1..Len(projects) : projects[i].id = pid

CreateFile(pid, path, dbOk) ==
    IF PathMissing(path)
    THEN /\ resp' = Invalid("createFile", path)
         /\ UNCHANGED <<schema, projects, files, tx>>
    ELSE IF QueryError(dbOk, pid) # ""
    THEN /\ resp' \in Unhandled("createFile", QueryError(dbOk, pid))
         /\ UNCHANGED <<schema, projects, files, tx>>
    ELSE \E uuid \in Uuids :
           /\ ~RowLocked(uuid)
           /\ IF ~FilePkOk(uuid) \/ ~ProjectFkOk(pid)
              THEN /\ resp' \in Unhandled("createFile", IF ~FilePkOk(uuid) THEN "pk" ELSE "fk")
                   /\ UNCHANGED <<schema, projects, files, tx>>
              ELSE /\ files' = InsertRow(files, [id |-> uuid, project_id |-> pid,
                                                  path |-> path.str, content |-> ""])
                   /\ resp' = Ok("createFile", pid, path,
                                 <<[id |-> uuid, path |-> path.str, content |-> ""]>>)
                   /\ UNCHANGED <<schema, projects, tx>>

(***************************************************************************)
(* PATCH /files/:id                                                        *)
(***************************************************************************)
ContentMissing_falsy(content) == content.tag # "string" \/ content.str = ""

\* req.body.content === undefined
ContentMissing(content) == content = Undefined

\* UPDATE files SET content = $1 WHERE id = $2
FilesAfterUpdate(fid, text) ==
    [i \in 1..Len(files) |->
        IF files[i].id = fid THEN [files[i] EXCEPT !.content = text] ELSE files[i]]

\* content TEXT NOT NULL: a null content is rejected when a row is updated.
ContentNotNullOk(fid, content) == content # Null \/ FilePkOk(fid)

UpdateFileContent(fid, content, dbOk) ==
    IF ContentMissing(content)
    THEN /\ resp' = Invalid("updateFileContent", content)
         /\ UNCHANGED <<schema, projects, files, tx>>
    ELSE IF QueryError(dbOk, fid) # ""
    THEN /\ resp' \in Unhandled("updateFileContent", QueryError(dbOk, fid))
         /\ UNCHANGED <<schema, projects, files, tx>>
    ELSE IF ~ContentNotNullOk(fid, content)
    THEN /\ resp' \in Unhandled("updateFileContent", "notnull")
         /\ UNCHANGED <<schema, projects, files, tx>>
    ELSE /\ ~RowLocked(fid)
         /\ files' = FilesAfterUpdate(fid, content.str)
         /\ resp' = Ok("updateFileContent", fid, content, <<>>)
         /\ UNCHANGED <<schema, projects, tx>>

(***************************************************************************)
(* DELETE /files/:id                                                       *)
(***************************************************************************)
\* DELETE FROM files WHERE id = $1
FilesAfterDelete(fid) == SelectSeq(files, LAMBDA f : f.id # fid)

DeleteStatus_notFound(fid) == IF FilePkOk(fid) THEN "404" ELSE "200"

\* res.json({ success: true }) follows the statement whatever it deleted.
DeleteStatus(fid) == "200"

DeleteFile(fid, dbOk) ==
    IF QueryError(dbOk, fid) # ""
    THEN /\ resp' \in Unhandled("deleteFile", QueryError(dbOk, fid))
         /\ UNCHANGED <<schema, projects, files, tx>>
    ELSE /\ ~RowLocked(fid)
         /\ files' = FilesAfterDelete(fid)
         /\ resp' = Resp("deleteFile", DeleteStatus(fid), "", fid, Undefined, <<>>,
                         resp.op = "deleteFile" /\ resp.status = "200" /\ resp.id = fid)
         /\ UNCHANGED <<schema, projects, tx>>

(***************************************************************************)
(* GET /projects/:projectId/download                                       *)
(***************************************************************************)
ExportRows_noWhere(pid) == AnyOrder(files)

\* SELECT path, content FROM files WHERE project_id = $1: no ORDER BY either.
ExportRows(pid) == AnyOrder(SelectFiles(pid))

\* archive.append(f.content, { name: f.path })
ArchiveEntry(f) == [name |-> f.path, data |-> f.content]

\* r.rows.forEach: one entry per row, in the order the store returned the rows.
ArchiveEntries(pid) ==
    {[i \in 1..Len(rows) |-> ArchiveEntry(rows[i])] : rows \in ExportRows(pid)}

ExportProjectZip(pid, dbOk) ==
    /\ IF QueryError(dbOk, pid) # ""
       THEN resp' = Caught("exportProjectZip", QueryError(dbOk, pid))
       ELSE \E a \in ArchiveEntries(pid) : resp' = Ok("exportProjectZip", pid, Undefined, a)
    /\ UNCHANGED <<schema, projects, files, tx>>

(***************************************************************************)
(* The application: any request, at any time.                              *)
(***************************************************************************)
Next ==
    \/ Health
    \/ \E dbOk \in BOOLEAN : DbTest(dbOk)
    \/ \E dbOk \in BOOLEAN : InitDb(dbOk)
    \/ \E name \in NameInputs, dbOk \in BOOLEAN : CreateProject(name, dbOk)
    \/ \E dbOk \in BOOLEAN : ListProjects(dbOk)
    \/ \E pid \in ReqIds, dbOk \in BOOLEAN : ListFiles(pid, dbOk)
    \/ \E pid \in ReqIds, path \in PathInputs, dbOk \in BOOLEAN : CreateFile(pid, path, dbOk)
    \/ \E fid \in ReqIds, content \in ContentInputs, dbOk \in BOOLEAN :
           UpdateFileContent(fid, content, dbOk)
    \/ \E fid \in ReqIds, dbOk \in BOOLEAN : DeleteFile(fid, dbOk)
    \/ \E pid \in ReqIds, dbOk \in BOOLEAN : ExportProjectZip(pid, dbOk)

Spec == Init /\ [][Next]_vars

(***************************************************************************)
(* The schema's foreign key: a project row removed by other means than the *)
(* application (no route deletes a project) takes its files with it.       *)
(***************************************************************************)
\* project_id UUID REFERENCES projects(id) ON DELETE CASCADE
FilesAfterCascade(pid) == SelectSeq(files, LAMBDA f : f.project_id # pid)

RemoveProjectRow(pid) ==
    /\ schema
    /\ ProjectFkOk(pid)
    /\ projects' = SelectSeq(projects, LAMBDA p : p.id # pid)
    /\ files' = FilesAfterCascade(pid)
    /\ resp' = Ok("removeProjectRow", pid, Undefined, FileRows(SelectFiles(pid)))
    /\ UNCHANGED <<schema, tx>>

NextSchema ==
    \/ Next
    \/ \E pid \in Uuids : RemoveProjectRow(pid)

SpecSchema == Init /\ [][NextSchema]_vars

(***************************************************************************)
(* POST /projects/:projectId/files: the bulk replace of spec.md 4.2 and 5, *)
(* one transaction: BEGIN, DELETE the project's rows, one INSERT per       *)
(* entry, COMMIT; any failure rolls back and is answered 500.              *)
(***************************************************************************)
EntryInputs ==
    {[path |-> Str("x.py"), content |-> Str("1")],
     [path |-> Str("y.py"), content |-> Str("2")],
     [path |-> Undefined, content |-> Str("1")]}

FileLists == UNION {[1..n -> EntryInputs] : n \in 0..MaxLen}

\* The {path, content} pair of a well-formed entry or of a stored row.
PathContent(e) == [path |-> e.path, content |-> e.content]
EntryText(e) == [path |-> e.path.str, content |-> e.content.str]
PathContents(s) == [i \in 1..Len(s) |-> PathContent(s[i])]
EntryTexts(F) == [i \in 1..Len(F) |-> EntryText(F[i])]

Pending(pid) == Resp("replaceAllFiles", "pending", "", pid, Undefined, <<>>, FALSE)

TxStatement_autocommit(after) == after

\* What the other connections see of the table after a statement of the open
\* transaction: under READ COMMITTED, the committed rows, unchanged.
TxStatement(after) == files

\* ROLLBACK, then 500.
Abort(err) ==
    /\ tx' = TxIdle
    /\ files' = TxStatement(files)
    /\ resp' = Caught("replaceAllFiles", err)
    /\ UNCHANGED <<schema, projects>>

ReplaceBegin(pid, isArray, F, dbOk) ==
    /\ tx.st = "idle"
    /\ IF ~isArray
       THEN /\ resp' = Invalid("replaceAllFiles", Undefined)
            /\ UNCHANGED <<schema, projects, files, tx>>
       ELSE IF QueryError(dbOk, pid) # ""
       THEN /\ resp' = Caught("replaceAllFiles", QueryError(dbOk, pid))
            /\ UNCHANGED <<schema, projects, files, tx>>
       ELSE /\ tx' = [TxIdle EXCEPT !.st = "open", !.pid = pid, !.F = F,
                                    !.pre = SelectFiles(pid)]
            /\ resp' = Pending(pid)
            /\ UNCHANGED <<schema, projects, files>>

\* DELETE FROM files WHERE project_id = $1, inside the transaction.
ReplaceDelete(dbOk) ==
    /\ tx.st = "open"
    /\ ~tx.deleted
    /\ IF ~dbOk
       THEN Abort("connection")
       ELSE /\ tx' = [tx EXCEPT !.deleted = TRUE, !.del = Ids(SelectFiles(tx.pid))]
            /\ files' = TxStatement(FilesAfterCascade(tx.pid))
            /\ resp' = Pending(tx.pid)
            /\ UNCHANGED <<schema, projects>>

\* The rows the transaction itself sees: the committed rows it has not deleted,
\* and the rows it has inserted.
TxIds == (Ids(files) \ tx.del) \cup Ids(tx.ins)

\* INSERT INTO files (id, project_id, path, content), inside the transaction.
ReplaceInsert(dbOk) ==
    /\ tx.st = "open"
    /\ tx.deleted
    /\ tx.k < Len(tx.F)
    /\ LET e == tx.F[tx.k + 1] IN
       IF ~dbOk
       THEN Abort("connection")
       ELSE IF e.path.tag # "string" \/ e.content.tag # "string"
       THEN Abort("notnull")
       ELSE IF ~ProjectFkOk(tx.pid)
       THEN Abort("fk")
       ELSE \E uuid \in Uuids :
              IF uuid \in TxIds
              THEN Abort("pk")
              ELSE LET row == [id |-> uuid, project_id |-> tx.pid,
                               path |-> e.path.str, content |-> e.content.str] IN
                   /\ tx' = [tx EXCEPT !.k = tx.k + 1, !.ins = Append(tx.ins, row)]
                   /\ files' = TxStatement(Append(files, row))
                   /\ resp' = Pending(tx.pid)
                   /\ UNCHANGED <<schema, projects>>

\* COMMIT: the deleted rows go and the inserted rows appear, at once. The new
\* rows are placed last, in the order of F; where their created_at puts them
\* among rows created while the transaction was open is not tracked (no
\* statement of src/index.js reads the created_at of a file).
CommitFiles == SelectSeq(files, LAMBDA f : f.id \notin tx.del) \o tx.ins

ReplaceCommit(dbOk) ==
    /\ tx.st = "open"
    /\ tx.deleted
    /\ tx.k = Len(tx.F)
    /\ IF ~dbOk
       THEN Abort("connection")
       ELSE /\ files' = CommitFiles
            /\ tx' = TxIdle
            /\ resp' = Ok("replaceAllFiles", tx.pid, Undefined, EntryTexts(tx.F))
            /\ UNCHANGED <<schema, projects>>

\* Two projects exist and no file does: the state after GET /init-db and two
\* POST /projects.
InitReplace ==
    /\ schema = TRUE
    /\ projects = <<[id |-> 1, name |-> "Demo"], [id |-> 2, name |-> "App"]>>
    /\ files = <<>>
    /\ tx = TxIdle
    /\ resp = Ok("createProject", 2, Str("App"), <<[id |-> 2, name |-> "App"]>>)

NextReplace ==
    \/ \E pid \in Uuids, isArray \in BOOLEAN, F \in FileLists, dbOk \in BOOLEAN :
           ReplaceBegin(pid, isArray, F, dbOk)
    \/ \E dbOk \in BOOLEAN : ReplaceDelete(dbOk)
    \/ \E dbOk \in BOOLEAN : ReplaceInsert(dbOk)
    \/ \E dbOk \in BOOLEAN : ReplaceCommit(dbOk)
    \/ \E pid \in Uuids : ListFiles(pid, TRUE)
    \/ \E pid \in Uuids : ExportProjectZip(pid, TRUE)
    \/ \E pid \in Uuids : CreateFile(pid, Str("a.txt"), TRUE)
    \/ \E fid \in Uuids : DeleteFile(fid, TRUE)

SpecReplace == InitReplace /\ [][NextReplace]_vars

(***************************************************************************)
(* Properties.                                                             *)
(***************************************************************************)
Falsy == {Undefined, Str("")}

\* C1: replaceAllFiles is atomic. No statement of the open transaction, and no
\* rollback, changes the rows any reader can select; the commit leaves the files
\* of every other project alone and, no other request having written to the
\* project during the call (its DELETE removed the rows the project held when
\* the call began, and the project holds no other row), turns the project's
\* files into exactly the entries of F.
C1_ReplaceAllAtomic ==
    [][resp'.op = "replaceAllFiles" =>
         IF resp'.status = "200"
         THEN /\ \A p \in Uuids \ {tx.pid} : SelectFrom(files', p) = SelectFrom(files, p)
              /\ (tx.del = Ids(tx.pre) /\ Ids(SelectFiles(tx.pid)) = tx.del) =>
                     PathContents(SelectFrom(files', tx.pid)) = EntryTexts(tx.F)
         ELSE files' = files]_vars

\* A reader lists the project while its replacement is half done (the old rows
\* deleted, one of two entries inserted) and is answered the complete old set.
C1_Witness ==
    /\ tx.st = "open" /\ tx.deleted /\ tx.k = 1 /\ Len(tx.F) = 2
    /\ tx.pre # <<>>
    /\ resp.op = "listFiles" /\ resp.status = "200" /\ resp.id = tx.pid
    /\ resp.rows \in AnyOrder(FileRows(tx.pre))

\* C2: a listFiles(P) that directly follows a successful replaceAllFiles(P, F),
\* the project holding exactly the rows of F, returns the entries of F in the
\* order of F.
C2_ListAfterReplace ==
    [][(/\ resp.op = "replaceAllFiles" /\ resp.status = "200"
        /\ PathContents(SelectFiles(resp.id)) = resp.rows
        /\ resp'.op = "listFiles" /\ resp'.status = "200" /\ resp'.id = resp.id)
       => PathContents(resp'.rows) = resp.rows]_vars

\* C3: a successful createProject(name) returns an id no project had, after it
\* exactly one listed project has that id and it has the given name, the rows
\* listed before are still listed unchanged, and no id is ever listed twice.
C3_CreateProjectListed ==
    /\ [](\A i, j \in 1..Len(ListProjectsRows) :
            ListProjectsRows[i].id = ListProjectsRows[j].id => i = j)
    /\ [][/\ Len(projects') >= Len(projects)
          /\ \A i \in 1..Len(projects) : projects'[i] = projects[i]
          /\ (resp'.op = "createProject" /\ resp'.status = "200") =>
                /\ resp'.id \notin Ids(projects)
                /\ \E i \in 1..Len(projects') :
                      /\ projects'[i] = [id |-> resp'.id, name |-> resp'.arg.str]
                      /\ \A j \in 1..Len(projects') : projects'[j].id = resp'.id => j = i]_vars

\* A second project has been created beside the first.
C3_Witness ==
    /\ resp.op = "createProject" /\ resp.status = "200"
    /\ Len(projects) = 2
    /\ \E i \in 1..2 : projects[i] = [id |-> resp.id, name |-> resp.arg.str]

\* C4: createProject with an empty or missing name is answered 400 as a
\* validation error whatever the state of the store (down, or without tables),
\* and leaves projects and files as they were.
C4_CreateProjectValidation ==
    [][resp'.op = "createProject" =>
       \A name \in Falsy, dbOk \in BOOLEAN :
          CreateProject(name, dbOk) =>
             /\ resp'.status = "400" /\ resp'.err = "validation"
             /\ projects' = projects /\ files' = files]_vars

\* An empty name is refused while the tables do not exist yet: a store call
\* would have failed.
C4_Witness ==
    /\ resp.op = "createProject" /\ resp.status = "400" /\ resp.arg = Str("")
    /\ ~schema

\* C5: a request whose store call failed is answered 500.
C5_StoreFailureAnswered500 ==
    resp.err \notin {"", "validation"} => resp.status = "500"

\* C6: listFiles(projectId) returns the rows of projectId, all and only, by
\* ascending created_at.
C6_ListFilesByCreatedAt ==
    (resp.op = "listFiles" /\ resp.status = "200") =>
        resp.rows = FileRows(SelectFiles(resp.id))

\* C7: updateFileContent with an absent content is answered 400 and changes no
\* file; with the empty string and the id of a stored file it is answered 200
\* (the store permitting) and every listing of the file's project then shows the
\* file with empty content; in all cases no file appears, disappears or moves,
\* no id, path or project_id changes, and no other file's content changes.
C7_UpdateFileContent ==
    [][resp'.op = "updateFileContent" =>
         /\ \A fid \in ReqIds, dbOk \in BOOLEAN :
               UpdateFileContent(fid, Undefined, dbOk) =>
                  resp'.status = "400" /\ resp'.err = "validation" /\ files' = files
         /\ \A i \in 1..Len(files) :
               UpdateFileContent(files[i].id, Str(""), TRUE) =>
                  /\ resp'.status = "200"
                  /\ \A r \in AnyOrder(FileRows(SelectFrom(files', files[i].project_id))) :
                        \E n \in 1..Len(r) : r[n].id = files[i].id /\ r[n].content = ""
         /\ Len(files') = Len(files)
         /\ \A i \in 1..Len(files) :
               /\ files'[i].id = files[i].id
               /\ files'[i].path = files[i].path
               /\ files'[i].project_id = files[i].project_id
               /\ files'[i] # files[i] => resp'.status = "200" /\ files[i].id = resp'.id
         /\ projects' = projects]_vars

\* The content of a stored file has been set to the empty string, a second file
\* being stored.
C7_Witness ==
    /\ resp.op = "updateFileContent" /\ resp.status = "200" /\ resp.arg = Str("")
    /\ resp.id \in Ids(files)
    /\ Len(files) = 2

\* C8: every file row's project_id is the id of a project row, in every state;
\* createFile under a well-formed projectId no project has fails at the store
\* (on the foreign key, or on the key of the new row) and inserts nothing;
\* removing a project row removes the file rows of that project and no other.
C8_ReferentialIntegrity ==
    /\ [](\A i \in 1..Len(files) : files[i].project_id \in Ids(projects))
    /\ [][/\ resp'.op = "createFile" =>
                \A pid \in Uuids \ Ids(projects), path \in PathInputs \ Falsy :
                   (CreateFile(pid, path, TRUE) /\ schema) =>
                       resp'.err \in {"fk", "pk"} /\ resp'.status # "200" /\ files' = files
          /\ resp'.op = "removeProjectRow" =>
                \A pid \in Uuids :
                   RemoveProjectRow(pid) =>
                       /\ SelectFrom(files', pid) = <<>>
                       /\ \A p \in Uuids \ {pid} : SelectFrom(files', p) = SelectFrom(files, p)]_vars

\* createFile under an unknown project has failed on the foreign key.
C8_Witness ==
    /\ resp.op = "createFile" /\ resp.err = "fk"
    /\ schema

\* C9: deleteFile(id), the store permitting, reports success whether the file
\* exists or not; afterwards no file has that id, every other file is stored
\* as before and in the same order, and no project changed; a second call that
\* directly follows a successful one changes nothing.
C9_DeleteFileIdempotent ==
    [][resp'.op = "deleteFile" =>
       \A fid \in Uuids :
          (DeleteFile(fid, TRUE) /\ schema) =>
             /\ resp'.status = "200"
             /\ fid \notin Ids(files')
             /\ files' = SelectSeq(files, LAMBDA f : f.id # fid)
             /\ projects' = projects
             /\ (resp.op = "deleteFile" /\ resp.status = "200" /\ resp.id = fid) =>
                   files' = files]_vars

\* The same id has been deleted twice in a row, successfully, another file
\* being stored.
C9_Witness ==
    /\ resp.op = "deleteFile" /\ resp.status = "200" /\ resp.again
    /\ Len(files) >= 1

\* C10: the archive of exportProjectZip(projectId) has one entry per file row of
\* projectId, named by the row's path and holding its content, and nothing else
\* (none for a project without files or an unknown project); the store
\* permitting, the export succeeds; it changes no project and no file.
C10_ExportProjectZip ==
    /\ []((resp.op = "exportProjectZip" /\ resp.status = "200") =>
            resp.rows \in AnyOrder([i \in 1..Len(SelectFiles(resp.id)) |->
                                       [name |-> SelectFiles(resp.id)[i].path,
                                        data |-> SelectFiles(resp.id)[i].content]]))
    /\ [][resp'.op = "exportProjectZip" =>
          \A pid \in Uuids :
             (ExportProjectZip(pid, TRUE) /\ schema) =>
                 resp'.status = "200" /\ projects' = projects /\ files' = files]_vars

\* A project whose one file is "a.txt" holding "hello" has been exported while
\* another project holds a file.
C10_Witness ==
    /\ resp.op = "exportProjectZip" /\ resp.status = "200"
    /\ resp.rows = <<[name |-> "a.txt", data |-> "hello"]>>
    /\ \E i \in 1..Len(files) : files[i].project_id # resp.id

====
